---- MODULE Spec2Model ----
(***************************************************************************)
(* Model of the LLM chat streaming core of levee-ts:                       *)
(*   - LLMClient.chatStream (src/src/streaming/llm.ts), the async          *)
(*     generator that turns the duplex stream's 'data' / 'error' / 'end'   *)
(*     events into a pull sequence of chunks ending in a ChatResponse;     *)
(*   - WSSession (src/src/streaming/ws.ts), the WebSocket bridge that      *)
(*     drives one chatStream per accepted start frame and forwards what    *)
(*     it yields as outbound frames.                                       *)
(* JavaScript runs every callback to completion, so each action is one     *)
(* callback or one resumption of a suspended async function.               *)
(* In a chatStream run getClient() is taken to resolve; the remote side    *)
(* may send any frame at                                                   *)
(* any time, then at most one 'error' and one 'end'.  Text frames reach    *)
(* the 'message' listener only while the socket is open.                   *)
(*                                                                         *)
(* Spec       is the bridge on one socket with everything interleaved.     *)
(* SpecStream is one chatStream run with its consumer, events bounded by   *)
(*            MaxEvents instead of MaxSockEvents.                          *)
(* SpecClient is LLMClient.getClient and close under concurrent calls.     *)
(* SpecStreamFair is SpecStream with settled awaits resumed and the        *)
(*            consumer pulling on.                                         *)
(* SpecCallback is one chatStreamCallback call and the runs it drives.     *)
(* SpecRequest is the non-streaming calls: Levee.request / requestVoid     *)
(*            (src/unnamed/part_000) and LLMClient.chat.                   *)
(* SpecAttach is WebSocketHandler.attach answering upgrade requests.       *)
(* SpecErrors is createAPIError (src/src/errors.ts) over HTTP statuses.    *)
(***************************************************************************)
EXTENDS Integers, Sequences, FiniteSets, TLC

\* ------------------------------------------------------------------ bounds
MaxStreams    == 2   \* chatStream generators that may be created
MaxEvents     == 5   \* events a duplex stream emits (SpecStream)
MaxSockEvents == 2   \* events a duplex stream emits (Spec)
MaxInbound    == 2   \* text frames received on the socket
MaxCalls      == 3   \* concurrent chat / chatStream calls (SpecClient)
MaxCloses     == 2   \* calls of LLMClient.close (SpecClient)
MaxCbEvents   == 3   \* events a duplex stream emits (SpecCallback)
MaxReqs       == 2   \* non-streaming calls in flight (SpecRequest)
MaxUpgrades   == 2   \* upgrade requests the server receives (SpecAttach)
MaxStatus     == 600 \* largest HTTP status handed to createAPIError

\* --------------------------------------------------------------- constants
WS_OPEN    == 1
WS_CLOSING == WS_OPEN + 1
WS_CLOSED  == WS_OPEN + 2

Streams == 1..MaxStreams
Calls   == 1..MaxCalls
Reqs    == 1..MaxReqs

\* optional values: null is the empty tuple, a value v is <<v>>
Null      == <<>>
Some(v)   == <<v>>
IsNull(o) == o = <<>>
Val(o)    == o[1]

Last(q) == q[Len(q)]

\* ------------------------------------------------- inbound socket frames
\* The raw text frames a socket client may send, and what JSON.parse makes
\* of them.  "data" is an optional start request.
RawStart       == "{\"type\":\"start\",\"data\":{}}"
RawStartNoData == "{\"type\":\"start\"}"
RawMessage     == "{\"type\":\"message\",\"data\":{\"content\":\"hi\"}}"
RawAbort       == "{\"type\":\"abort\"}"
RawToolResult  == "{\"type\":\"tool_result\",\"data\":{\"toolCallId\":\"t\",\"result\":\"r\"}}"
RawUnknown     == "{\"type\":\"ping\"}"
RawNull        == "null"
RawGarbage     == "{not json"

RawFrames == { RawStart, RawStartNoData, RawMessage,
               RawAbort, RawToolResult, RawUnknown, RawNull, RawGarbage }

\* variant of JSONParse whose exception is not caught by handleMessage
JSONParse_nocatch(raw) ==
  CASE raw = RawStart        -> [ok |-> TRUE, isObj |-> TRUE, type |-> "start",
                                 data |-> Some([model |-> Null])]
    [] raw = RawStartNoData  -> [ok |-> TRUE, isObj |-> TRUE, type |-> "start",
                                 data |-> Null]
    [] raw = RawMessage      -> [ok |-> TRUE, isObj |-> TRUE, type |-> "message",
                                 data |-> Null]
    [] raw = RawAbort        -> [ok |-> TRUE, isObj |-> TRUE, type |-> "abort",
                                 data |-> Null]
    [] raw = RawToolResult   -> [ok |-> TRUE, isObj |-> TRUE, type |-> "tool_result",
                                 data |-> Null]
    [] raw = RawUnknown      -> [ok |-> TRUE, isObj |-> TRUE, type |-> "ping",
                                 data |-> Null]
    [] raw = RawNull         -> [ok |-> TRUE, isObj |-> FALSE, type |-> "",
                                 data |-> Null]
    [] OTHER                 -> [ok |-> TRUE, isObj |-> FALSE, type |-> "",
                                 data |-> Null]

\* JSON.parse: ok = FALSE when it throws; isObj = FALSE for the value null
JSONParse(raw) ==
  CASE raw = RawStart        -> [ok |-> TRUE, isObj |-> TRUE, type |-> "start",
                                 data |-> Some([model |-> Null])]
    [] raw = RawStartNoData  -> [ok |-> TRUE, isObj |-> TRUE, type |-> "start",
                                 data |-> Null]
    [] raw = RawMessage      -> [ok |-> TRUE, isObj |-> TRUE, type |-> "message",
                                 data |-> Null]
    [] raw = RawAbort        -> [ok |-> TRUE, isObj |-> TRUE, type |-> "abort",
                                 data |-> Null]
    [] raw = RawToolResult   -> [ok |-> TRUE, isObj |-> TRUE, type |-> "tool_result",
                                 data |-> Null]
    [] raw = RawUnknown      -> [ok |-> TRUE, isObj |-> TRUE, type |-> "ping",
                                 data |-> Null]
    [] raw = RawNull         -> [ok |-> TRUE, isObj |-> FALSE, type |-> "",
                                 data |-> Null]
    [] OTHER                 -> [ok |-> FALSE, isObj |-> FALSE, type |-> "",
                                 data |-> Null]

\* ------------------------------------------------ transport frames/events
\* the remote side numbers its chunks; chunk i carries this text
ContentAt(i) == IF i % 2 = 0 THEN "He" ELSE "llo"

CompletionMsgs ==
  { [fullContent |-> "Hello", stopReason |-> "max_tokens", inputTokens |-> 5,
     outputTokens |-> 2, costUsd |-> 1, latencyMs |-> 7] }

ErrorMsgs ==
  { [code |-> "rate_limited", message |-> "slow down", retryable |-> TRUE] }

StreamErrs == {"14 UNAVAILABLE"}

\* ChatResponseMessage envelopes the remote side may send (one field set)
ChunkFrame(i)      == [kind |-> "chunk", chunk |-> [content |-> ContentAt(i), index |-> i]]
CompletionFrame(m) == [kind |-> "completion", completion |-> m]
ErrorFrame(e)      == [kind |-> "error", error |-> e]
AbortedFrame       == [kind |-> "aborted"]
EmptyFrame         == [kind |-> "empty"]     \* no field of the oneof is set


\* ------------------------------------------------------------------- state
VARIABLES
  readyState,       \* ws.readyState of the socket
  started,          \* WSSession.started
  abortController,  \* WSSession.abortController: "null", "live" or "aborted"
  sent,             \* frames handed to ws.send, each tagged with its stream
  inbound,          \* raw text frames the 'message' listener has handled
  uncaught,         \* exceptions that escaped a socket event listener
  nStreams,         \* chatStream generators created so far
  gen,              \* per generator: the locals of chatStream and its position
  wire,             \* per generator: its duplex stream (grpc side)
  reader,           \* per generator: the readStreamResponses call consuming it
  yielded,          \* per generator: the chunks it has yielded, in order
  client,           \* LLMClient.client: 0 for null, else the k-th one built
  constructed,      \* service clients constructed so far
  released,         \* what grpc.closeClient was handed, in order
  closeCalls,       \* calls of LLMClient.close so far
  call,             \* per chat / chatStream call: its position in getClient
  cb,               \* the chatStreamCallback call: position, onChunk calls, result
  rq,               \* per non-streaming call: position, timer, outcome
  checkOrigin,      \* WSHandlerOptions.checkOrigin: null or the origins it admits
  upgrades,         \* the upgrade requests handled, with what was done to each
  errIn,            \* the arguments of a createAPIError call
  errOut            \* what that call returned

vars == << readyState, started, abortController, sent, inbound, uncaught,
           nStreams, gen, wire, reader, yielded,
           client, constructed, released, closeCalls, call, cb, rq,
           checkOrigin, upgrades, errIn, errOut >>

clientVars == << client, constructed, released, closeCalls, call >>

\* the state of the calls that are neither streams nor sockets
handlerVars == << checkOrigin, upgrades >>

errVars == << errIn, errOut >>

otherVars == << rq, handlerVars, errVars >>

llmVars == << clientVars, cb, otherVars >>

bridgeVars == << readyState, started, abortController, sent, inbound, uncaught,
                 nStreams, gen, wire, reader, yielded >>

sockVars == << readyState, started, abortController, inbound, uncaught >>

\* ------------------------------------------------------ chatStream (llm.ts)
\* the locals of one chatStream call before its body has run
NewGen ==
  [ pc          |-> "none",    \* none, getClient, wait, yielded, finished
    input       |-> Null,      \* the ChatInput argument
    chunks      |-> <<>>,
    resolveNext |-> FALSE,     \* TRUE when resolveNext holds a resolver
    done        |-> FALSE,
    completion  |-> Null,
    error       |-> Null,
    result      |-> Null,      \* settled value of the promise awaited at 284
    out         |-> Null,      \* the chunk of the pending yield
    outcome     |-> Null ]     \* how the generator ended

NewWire == [ state |-> "none", written |-> <<>>, emitted |-> <<>> ]

NewReader == [ pc |-> "none", fullContent |-> "" ]

\* the ChatResponse built from a completion message
ChatResponseOf(m) ==
  [ content      |-> m.fullContent,
    inputTokens  |-> m.inputTokens,
    outputTokens |-> m.outputTokens,
    costUsd      |-> m.costUsd,
    latencyMs    |-> m.latencyMs,
    stopReason   |-> m.stopReason ]

\* new Error(`${code}: ${message}`)
RemoteErrorOf(e) == e.code \o ": " \o e.message

IteratorChunk(c) == [ done |-> FALSE, chunk |-> Some(c), ret |-> Null ]
IteratorDone(r)  == [ done |-> TRUE,  chunk |-> Null,    ret |-> r ]

Resolve(g, r) == [ g EXCEPT !.result = Some(r), !.resolveNext = FALSE ]

Returned(g, r) ==
  [ g EXCEPT !.pc = "finished",
             !.outcome = Some([kind |-> "returned", value |-> r, error |-> ""]) ]

Threw(g, msg) ==
  [ g EXCEPT !.pc = "finished",
             !.outcome = Some([kind |-> "threw", value |-> Null, error |-> msg]) ]

Yield(g, c) == [ g EXCEPT !.pc = "yielded", !.out = Some(c) ]

\* variant of OnChunk that buffers every chunk, waiting consumer or not
OnChunk_buffered(g, c) == [ g EXCEPT !.chunks = Append(@, c) ]

\* variant of OnChunk that buffers newest-first
OnChunk_lifo(g, c) ==
  IF g.resolveNext
    THEN Resolve(g, IteratorChunk(c))
    ELSE [ g EXCEPT !.chunks = << c >> \o @ ]

\* stream.on('data'), chunk branch
OnChunk(g, c) ==
  IF g.resolveNext
    THEN Resolve(g, IteratorChunk(c))
    ELSE [ g EXCEPT !.chunks = Append(@, c) ]

\* stream.on('data'), completion branch
OnCompletion(g, m) ==
  LET g1 == [ g EXCEPT !.completion = Some(ChatResponseOf(m)), !.done = TRUE ]
  IN  IF g1.resolveNext THEN Resolve(g1, IteratorDone(g1.completion)) ELSE g1

\* variant of OnErrorFrame that starts the run over when the error says
\* retryable
OnErrorFrame_retry(g, e) ==
  IF e.retryable
    THEN [ g EXCEPT !.pc = "getClient", !.resolveNext = FALSE, !.result = Null ]
    ELSE LET g1 == [ g EXCEPT !.error = Some(RemoteErrorOf(e)), !.done = TRUE ]
         IN  IF g1.resolveNext THEN Resolve(g1, IteratorDone(Null)) ELSE g1

\* variant of OnErrorFrame that ends the stream without recording the error
OnErrorFrame_silent(g, e) ==
  LET g1 == [ g EXCEPT !.done = TRUE ]
  IN  IF g1.resolveNext THEN Resolve(g1, IteratorDone(Null)) ELSE g1

\* stream.on('data'), error branch
OnErrorFrame(g, e) ==
  LET g1 == [ g EXCEPT !.error = Some(RemoteErrorOf(e)), !.done = TRUE ]
  IN  IF g1.resolveNext THEN Resolve(g1, IteratorDone(Null)) ELSE g1

\* stream.on('data'): a frame with none of chunk/completion/error set
\* (aborted, sessionStarted) matches no branch
OnData(g, f) ==
  CASE f.kind = "chunk"      -> OnChunk(g, f.chunk)
    [] f.kind = "completion" -> OnCompletion(g, f.completion)
    [] f.kind = "error"      -> OnErrorFrame(g, f.error)
    [] OTHER                 -> g

\* stream.on('error')
OnStreamError(g, err) ==
  LET g1 == [ g EXCEPT !.error = Some(err), !.done = TRUE ]
  IN  IF g1.resolveNext THEN Resolve(g1, IteratorDone(Null)) ELSE g1

\* stream.on('end')
\* variant of OnStreamEnd that sets done without settling the awaited promise
OnStreamEnd_nowake(g) == [ g EXCEPT !.done = TRUE ]

OnStreamEnd(g) ==
  LET g1 == [ g EXCEPT !.done = TRUE ]
  IN  IF g1.resolveNext THEN Resolve(g1, IteratorDone(g1.completion)) ELSE g1

\* lines 295-304: drain the buffer, then throw or return
\* variant of Drain that raises a recorded error before emptying the buffer
Drain_errorfirst(g) ==
  IF ~IsNull(g.error)
    THEN Threw(g, Val(g.error))
    ELSE IF Len(g.chunks) > 0
      THEN Yield([ g EXCEPT !.chunks = Tail(@) ], Head(g.chunks))
      ELSE IF IsNull(g.completion)
        THEN Threw(g, "Stream ended without completion")
        ELSE Returned(g, g.completion)

Drain(g) ==
  IF Len(g.chunks) > 0
    THEN Yield([ g EXCEPT !.chunks = Tail(@) ], Head(g.chunks))
    ELSE IF ~IsNull(g.error)
      THEN Threw(g, Val(g.error))
      ELSE IF IsNull(g.completion)
        THEN Threw(g, "Stream ended without completion")
        ELSE Returned(g, g.completion)

\* lines 280-286: one pass of the while loop up to its yield or await
Loop(g) ==
  IF ~g.done
    THEN IF Len(g.chunks) > 0
           THEN Yield([ g EXCEPT !.chunks = Tail(@) ], Head(g.chunks))
           ELSE [ g EXCEPT !.pc = "wait", !.resolveNext = TRUE, !.result = Null ]
    ELSE Drain(g)

\* lines 287-291: the awaited promise has settled
AfterAwait(g) ==
  LET r == Val(g.result)
      g1 == [ g EXCEPT !.result = Null ]
  IN  IF r.done
        THEN IF ~IsNull(g1.error)
               THEN Threw(g1, Val(g1.error))
               ELSE Returned(g1, r.ret)
        ELSE Yield(g1, Val(r.chunk))

\* the generator is resumed by next() after a yield
AfterYield(g) == Loop([ g EXCEPT !.out = Null ])

\* chunks yielded so far, extended when the step ends in a yield
Yielded(s, g) ==
  IF g.pc = "yielded" THEN [ yielded EXCEPT ![s] = Append(@, Val(g.out)) ]
                      ELSE yielded


\* ------------------------------------------------------- WSSession (ws.ts)
\* variant of Send without the readyState check
Send_unguarded(log, sid, type, data) ==
  Append(log, [ type |-> type, data |-> data, sid |-> sid ])

\* WSSession.send: dropped unless the socket is open; sid is the stream on
\* whose behalf the frame is sent (0 for a reply to an inbound frame)
Send(log, sid, type, data) ==
  IF readyState # WS_OPEN
    THEN log
    ELSE Append(log, [ type |-> type, data |-> data, sid |-> sid ])

SendError(log, sid, code, message, retryable) ==
  Send(log, sid, "error",
       [ code |-> code, message |-> message, retryable |-> retryable ])

\* the start envelope chatStream writes to the duplex stream
StartEnvelope(input) == [ kind |-> "start", model |-> input.model ]

\* variant of StartRejected without the started check
StartRejected_never == FALSE

\* handleStart line 220: a start is refused while started is set
StartRejected == started

\* variant of StartedOnAccept that leaves the flag as it was
StartedOnAccept_unset == started

\* handleStart line 237: the flag is set once chatStream has been called
StartedOnAccept == TRUE

\* variant of StartedOnFailure that sets the flag before the stream is set up
StartedOnFailure_set == TRUE

\* handleStart lines 225-237: the throw leaves the try block before the
\* assignment at line 237 is reached, so the flag keeps its value
StartedOnFailure == started

\* WSSession.handleStart with the first step of readStreamResponses: the
\* for-await calls next(), which runs chatStream up to `await getClient()`
HandleStart(req) ==
  IF StartRejected
    THEN /\ sent' = SendError(sent, 0, "already_started",
                              "Session already started", FALSE)
         /\ UNCHANGED << started, abortController, nStreams, gen, wire,
                         reader, yielded >>
    ELSE IF IsNull(req)
      THEN \* req.messages throws a TypeError, caught at line 248
           /\ abortController' = "live"
           /\ sent' = SendError(sent, 0, "start_failed",
                 "Cannot read properties of undefined (reading 'messages')",
                 TRUE)
           /\ started' = StartedOnFailure
           /\ UNCHANGED << nStreams, gen, wire, reader, yielded >>
      ELSE LET s == nStreams + 1 IN
           /\ nStreams < MaxStreams
           /\ abortController' = "live"
           /\ started' = StartedOnAccept
           /\ nStreams' = s
           /\ sent' = Send(sent, s, "started",
                 [ sessionId |-> "uuid", provider |-> "anthropic",
                   model |-> IF IsNull(Val(req).model) THEN "sonnet"
                                                       ELSE Val(Val(req).model) ])
           /\ gen' = [ gen EXCEPT ![s] =
                         [ NewGen EXCEPT !.pc = "getClient",
                                         !.input = Some([ model |-> Val(req).model ]) ] ]
           /\ reader' = [ reader EXCEPT ![s] = [ NewReader EXCEPT !.pc = "reading" ] ]
           /\ UNCHANGED << wire, yielded >>

\* variant of HandleUserMessage that writes the message to the session's
\* duplex stream
HandleUserMessage_forward ==
  /\ sent' = IF ~started
               THEN SendError(sent, 0, "not_started", "Session not started", FALSE)
               ELSE sent
  /\ wire' = IF ~started
               THEN wire
               ELSE [ wire EXCEPT ![nStreams].written =
                                    Append(@, [ kind |-> "message" ]) ]
  /\ UNCHANGED << started, abortController, nStreams, gen, reader, yielded >>

\* variant of HandleUserMessage without the started check
HandleUserMessage_noguard ==
  /\ sent' = SendError(sent, 0, "not_implemented",
                "Multi-turn streaming not yet supported in TypeScript SDK", FALSE)
  /\ UNCHANGED << started, abortController, nStreams, gen, wire, reader, yielded >>

\* WSSession.handleUserMessage
HandleUserMessage ==
  /\ sent' = IF ~started
               THEN SendError(sent, 0, "not_started", "Session not started", FALSE)
               ELSE SendError(sent, 0, "not_implemented",
                      "Multi-turn streaming not yet supported in TypeScript SDK",
                      FALSE)
  /\ UNCHANGED << started, abortController, nStreams, gen, wire, reader, yielded >>

\* variant of HandleAbort that stops the run and discards what is buffered
HandleAbort_discard ==
  /\ abortController' = IF started /\ abortController # "null"
                          THEN "aborted" ELSE abortController
  /\ gen' = IF started /\ abortController # "null" /\ nStreams >= 1
              THEN [ gen EXCEPT ![nStreams].chunks = <<>> ]
              ELSE gen
  /\ UNCHANGED << started, sent, nStreams, wire, reader, yielded >>

\* WSSession.handleAbort: the controller's signal is passed to nobody
HandleAbort ==
  /\ abortController' = IF started /\ abortController # "null"
                          THEN "aborted" ELSE abortController
  /\ UNCHANGED << started, sent, nStreams, gen, wire, reader, yielded >>

\* variant of HandleToolResult that treats its error reply as the end of
\* the session
HandleToolResult_ends ==
  /\ sent' = IF ~started
               THEN SendError(sent, 0, "not_started", "Session not started", FALSE)
               ELSE SendError(sent, 0, "not_implemented",
                      "Tool results not yet supported in TypeScript SDK", FALSE)
  /\ started' = FALSE
  /\ UNCHANGED << abortController, nStreams, gen, wire, reader, yielded >>

\* WSSession.handleToolResult
HandleToolResult ==
  /\ sent' = IF ~started
               THEN SendError(sent, 0, "not_started", "Session not started", FALSE)
               ELSE SendError(sent, 0, "not_implemented",
                      "Tool results not yet supported in TypeScript SDK", FALSE)
  /\ UNCHANGED << started, abortController, nStreams, gen, wire, reader, yielded >>

\* WSSession.handleMessage, called by the socket's 'message' listener
HandleMessage(raw) ==
  LET msg == JSONParse(raw) IN
  /\ inbound' = Append(inbound, raw)
  /\ IF ~msg.ok
       THEN /\ sent' = SendError(sent, 0, "invalid_json", "Invalid JSON message", FALSE)
            /\ UNCHANGED << started, abortController, nStreams, gen, wire,
                            reader, yielded, uncaught >>
       ELSE IF ~msg.isObj
         THEN \* msg.type on null throws out of the listener
              /\ uncaught' = uncaught + 1
              /\ UNCHANGED << started, abortController, sent, nStreams, gen,
                              wire, reader, yielded >>
         ELSE /\ UNCHANGED uncaught
              /\ CASE msg.type = "start"       -> HandleStart(msg.data)
                   [] msg.type = "message"     -> HandleUserMessage
                   [] msg.type = "abort"       -> HandleAbort
                   [] msg.type = "tool_result" -> HandleToolResult
                   [] OTHER ->
                        /\ sent' = SendError(sent, 0, "unknown_type",
                                     "Unknown message type: " \o msg.type, FALSE)
                        /\ UNCHANGED << started, abortController, nStreams, gen,
                                        wire, reader, yielded >>

\* WSSession.cleanup
CleanupController == IF abortController # "null" THEN "null" ELSE abortController

\* ------------------------------------------------ LLMClient.getClient, close
\* a chat or chatStream call before it has run
NewCall == [ pc |-> "idle", client |-> 0 ]   \* idle, loading, has

\* chat / chatStream is called and getClient runs up to its return at line
\* 129 or up to the await of protoLoader.load at line 136
GetClient(c) ==
  /\ call[c].pc = "idle"
  /\ call' = [ call EXCEPT ![c] =
                 IF client # 0 THEN [ pc |-> "has", client |-> client ]
                               ELSE [ pc |-> "loading", client |-> 0 ] ]
  /\ UNCHANGED << bridgeVars, client, constructed, released, closeCalls, cb,
                  otherVars >>

\* protoLoader.load has resolved: getClient constructs the service client,
\* stores it in this.client and returns it (lines 144-153)
ProtoLoaded(c) ==
  /\ call[c].pc = "loading"
  /\ constructed' = constructed + 1
  /\ client' = constructed + 1
  /\ call' = [ call EXCEPT ![c] = [ pc |-> "has", client |-> constructed + 1 ] ]
  /\ UNCHANGED << bridgeVars, released, closeCalls, cb, otherVars >>

\* variant of Close without the check of this.client
Close_unguarded ==
  /\ closeCalls < MaxCloses
  /\ closeCalls' = closeCalls + 1
  /\ released' = Append(released, client)
  /\ client' = 0
  /\ UNCHANGED << bridgeVars, constructed, call, cb, otherVars >>

\* LLMClient.close
Close ==
  /\ closeCalls < MaxCloses
  /\ closeCalls' = closeCalls + 1
  /\ IF client # 0
       THEN /\ released' = Append(released, client)
            /\ client' = 0
       ELSE UNCHANGED << released, client >>
  /\ UNCHANGED << bridgeVars, constructed, call, cb, otherVars >>

\* ------------------------------------------- LLMClient.chatStreamCallback
\* a chatStreamCallback call before it has run
NewCb ==
  [ pc      |-> "idle",   \* idle, first, second, returned, threw
    input   |-> Null,     \* the ChatInput argument
    onChunk |-> <<>>,     \* the chunks onChunk was called with, in order
    value   |-> Null,     \* the ChatResponse returned
    error   |-> Null ]    \* the error thrown

\* the generator chatStreamCallback is consuming
CbStream == IF cb.pc = "first" THEN 1 ELSE 2

\* chatStreamCallback is called: the for-await at line 324 creates a
\* generator and calls next(), which runs it up to `await getClient()`
CallbackStart ==
  /\ cb.pc = "idle"
  /\ nStreams = 0
  /\ \E input \in { [ model |-> Null ] } :
       /\ cb' = [ cb EXCEPT !.pc = "first", !.input = Some(input) ]
       /\ gen' = [ gen EXCEPT ![1] =
                     [ NewGen EXCEPT !.pc = "getClient", !.input = Some(input) ] ]
  /\ nStreams' = 1
  /\ UNCHANGED << sockVars, clientVars, otherVars, sent, wire, reader, yielded >>

\* the loop body of line 325 or line 331 with the next() that follows it
CallbackChunk ==
  /\ cb.pc \in { "first", "second" }
  /\ gen[CbStream].pc = "yielded"
  /\ cb' = [ cb EXCEPT !.onChunk = Append(@, Val(gen[CbStream].out)) ]
  /\ gen' = [ gen EXCEPT ![CbStream] = AfterYield(@) ]
  /\ yielded' = Yielded(CbStream, gen'[CbStream])
  /\ UNCHANGED << sockVars, clientVars, otherVars, sent, nStreams, wire, reader >>

\* the generator being consumed has returned or thrown: after the for-await
\* a second generator is created from the same input (lines 328-329), and
\* what that one returns is returned (line 334)
CallbackEnd ==
  /\ cb.pc \in { "first", "second" }
  /\ gen[CbStream].pc = "finished"
  /\ IF Val(gen[CbStream].outcome).kind = "threw"
       THEN /\ cb' = [ cb EXCEPT !.pc = "threw",
                                 !.error = Some(Val(gen[CbStream].outcome).error) ]
            /\ UNCHANGED << gen, nStreams >>
       ELSE IF cb.pc = "first"
         THEN /\ cb' = [ cb EXCEPT !.pc = "second" ]
              /\ gen' = [ gen EXCEPT ![2] =
                            [ NewGen EXCEPT !.pc = "getClient", !.input = cb.input ] ]
              /\ nStreams' = 2
         ELSE /\ cb' = [ cb EXCEPT !.pc = "returned",
                                   !.value = Val(gen[CbStream].outcome).value ]
              /\ UNCHANGED << gen, nStreams >>
  /\ UNCHANGED << sockVars, clientVars, otherVars, sent, wire, reader, yielded >>

\* ---------------------------------------------------- errors (errors.ts)
\* response headers: the one header the error classes read
NoHeaders    == [ retryAfter |-> Null ]
RetryHeaders == [ retryAfter |-> Some("2") ]

\* parseInt(s, 10) for the header values that occur
ParseInt(s) == IF s = "2" THEN 2 ELSE -1

\* class APIError: the constructor chain sets name and the prototype, so the
\* object is an instance of every class in isa
APIError(message, status, headers, requestId) ==
  [ name |-> "APIError", message |-> message, status |-> status,
    requestId |-> requestId, retryAfter |-> Null,
    isa |-> { "APIError", "LeveeError", "Error" } ]

BadRequestError(message, headers, requestId) ==
  [ APIError(message, 400, headers, requestId) EXCEPT
      !.name = "BadRequestError", !.isa = @ \cup { "BadRequestError" } ]

AuthenticationError(message, headers, requestId) ==
  [ APIError(message, 401, headers, requestId) EXCEPT
      !.name = "AuthenticationError", !.isa = @ \cup { "AuthenticationError" } ]

PermissionError(message, headers, requestId) ==
  [ APIError(message, 403, headers, requestId) EXCEPT
      !.name = "PermissionError", !.isa = @ \cup { "PermissionError" } ]

NotFoundError(message, headers, requestId) ==
  [ APIError(message, 404, headers, requestId) EXCEPT
      !.name = "NotFoundError", !.isa = @ \cup { "NotFoundError" } ]

RateLimitError(message, headers, requestId, retryAfter) ==
  [ APIError(message, 429, headers, requestId) EXCEPT
      !.name = "RateLimitError", !.isa = @ \cup { "RateLimitError" },
      !.retryAfter = retryAfter ]

InternalServerError(message, status, headers, requestId) ==
  [ APIError(message, status, headers, requestId) EXCEPT
      !.name = "InternalServerError", !.isa = @ \cup { "InternalServerError" } ]

\* variant of createAPIError that leaves status 500 itself unclassified
createAPIError_above500(message, status, headers, requestId) ==
  LET retryAfterMs == IF IsNull(headers.retryAfter) THEN Null
                      ELSE Some(ParseInt(Val(headers.retryAfter)) * 1000)
  IN  CASE status = 400 -> BadRequestError(message, headers, requestId)
        [] status = 401 -> AuthenticationError(message, headers, requestId)
        [] status = 403 -> PermissionError(message, headers, requestId)
        [] status = 404 -> NotFoundError(message, headers, requestId)
        [] status = 429 -> RateLimitError(message, headers, requestId, retryAfterMs)
        [] OTHER ->
             IF status > 500
               THEN InternalServerError(message, status, headers, requestId)
               ELSE APIError(message, status, headers, requestId)

\* createAPIError
createAPIError(message, status, headers, requestId) ==
  LET retryAfterMs == IF IsNull(headers.retryAfter) THEN Null
                      ELSE Some(ParseInt(Val(headers.retryAfter)) * 1000)
  IN  CASE status = 400 -> BadRequestError(message, headers, requestId)
        [] status = 401 -> AuthenticationError(message, headers, requestId)
        [] status = 403 -> PermissionError(message, headers, requestId)
        [] status = 404 -> NotFoundError(message, headers, requestId)
        [] status = 429 -> RateLimitError(message, headers, requestId, retryAfterMs)
        [] OTHER ->
             IF status >= 500
               THEN InternalServerError(message, status, headers, requestId)
               ELSE APIError(message, status, headers, requestId)

\* the statuses createAPIError is called with
Statuses == 0..MaxStatus

\* a caller calls createAPIError with the arguments prepared
CreateError ==
  /\ ~IsNull(errIn)
  /\ IsNull(errOut)
  /\ errOut' = Some(createAPIError(Val(errIn).message, Val(errIn).status,
                                   Val(errIn).headers, Null))
  /\ UNCHANGED << bridgeVars, clientVars, cb, rq, handlerVars, errIn >>

\* ----------------------------- Levee.request, requestVoid, LLMClient.chat
\* a non-streaming call before it is made
NewReq ==
  [ kind    |-> "none",   \* none, request, requestVoid, chat
    pc      |-> "idle",   \* idle, fetching, body, done
    timer   |-> "none",   \* none, armed, cleared, fired
    elapsed |-> FALSE,    \* the configured timeout has passed since the call
    status  |-> 0,        \* status of the response received
    outcome |-> Null ]    \* how the call ended

\* the statuses the server answers with
FetchStatuses == { 200, 404, 500 }

\* Response.ok
Ok(status) == status >= 200 /\ status <= 299

\* the Error thrown at lines 885 and 931
TimedOut == [ name |-> "Error", message |-> "Request timed out" ]

\* request / requestVoid is called: the timer is armed and fetch is issued
\* (lines 848-862, 897-911)
CallRequest(r) ==
  /\ rq[r].pc = "idle"
  /\ \E kind \in { "request", "requestVoid" } :
       rq' = [ rq EXCEPT ![r].kind = kind, ![r].pc = "fetching",
                           ![r].timer = "armed" ]
  /\ UNCHANGED << bridgeVars, clientVars, cb, handlerVars, errVars >>

\* LLMClient.chat is called and, with its client, issues SimpleChat
\* (lines 160-171): no timer and no deadline is set
CallChat(r) ==
  /\ rq[r].pc = "idle"
  /\ rq' = [ rq EXCEPT ![r].kind = "chat", ![r].pc = "fetching" ]
  /\ UNCHANGED << bridgeVars, clientVars, cb, handlerVars, errVars >>

\* the configured timeout has passed since the call was made
TimeoutElapses(r) ==
  /\ rq[r].pc \in { "fetching", "body" }
  /\ ~rq[r].elapsed
  /\ rq' = [ rq EXCEPT ![r].elapsed = TRUE ]
  /\ UNCHANGED << bridgeVars, clientVars, cb, handlerVars, errVars >>

\* the timer callback runs controller.abort(); fetch rejects with an
\* AbortError and the catch block throws the timeout error (lines 882-886)
TimerFires(r) ==
  /\ rq[r].timer = "armed"
  /\ rq[r].elapsed
  /\ rq' = [ rq EXCEPT ![r].timer = "fired", ![r].pc = "done",
                         ![r].outcome = Some([ kind |-> "threw", error |-> TimedOut ]) ]
  /\ UNCHANGED << bridgeVars, clientVars, cb, handlerVars, errVars >>

\* fetch resolves with a response: the timer is cleared (lines 864, 913);
\* requestVoid returns on an ok response, in every other case a body read
\* is awaited
FetchResolves(r) ==
  /\ rq[r].pc = "fetching"
  /\ rq[r].kind \in { "request", "requestVoid" }
  /\ \E status \in FetchStatuses :
       rq' = [ rq EXCEPT
                  ![r].timer = "cleared",
                  ![r].status = status,
                  ![r].pc = IF Ok(status) /\ rq[r].kind = "requestVoid"
                              THEN "done" ELSE "body",
                  ![r].outcome = IF Ok(status) /\ rq[r].kind = "requestVoid"
                                   THEN Some([ kind |-> "returned" ]) ELSE Null ]
  /\ UNCHANGED << bridgeVars, clientVars, cb, handlerVars, errVars >>

\* fetch rejects for a reason of its own: the catch block clears the timer
\* and rethrows (lines 882-888)
FetchRejects(r) ==
  /\ rq[r].pc = "fetching"
  /\ rq[r].kind \in { "request", "requestVoid" }
  /\ rq' = [ rq EXCEPT
                ![r].timer = "cleared", ![r].pc = "done",
                ![r].outcome = Some([ kind |-> "threw",
                                      error |-> [ name |-> "TypeError",
                                                  message |-> "fetch failed" ] ]) ]
  /\ UNCHANGED << bridgeVars, clientVars, cb, handlerVars, errVars >>

\* response.json() or response.text() has resolved (lines 866-880)
BodyRead(r) ==
  /\ rq[r].pc = "body"
  /\ rq' = [ rq EXCEPT
                ![r].pc = "done",
                ![r].outcome =
                   IF Ok(rq[r].status)
                     THEN Some([ kind |-> "returned" ])
                     ELSE Some([ kind |-> "threw",
                                 error |-> createAPIError("nope", rq[r].status,
                                                          NoHeaders, Null) ]) ]
  /\ UNCHANGED << bridgeVars, clientVars, cb, handlerVars, errVars >>

\* the SimpleChat callback runs with an error or a response (lines 172-186)
ChatCallback(r) ==
  /\ rq[r].pc = "fetching"
  /\ rq[r].kind = "chat"
  /\ \E failed \in BOOLEAN :
       rq' = [ rq EXCEPT
                  ![r].pc = "done",
                  ![r].outcome =
                     IF failed
                       THEN Some([ kind |-> "threw",
                                   error |-> [ name |-> "Error",
                                               message |-> "14 UNAVAILABLE" ] ])
                       ELSE Some([ kind |-> "returned" ]) ]
  /\ UNCHANGED << bridgeVars, clientVars, cb, handlerVars, errVars >>

\* ------------------------------------------------ WebSocketHandler.attach
HandlerPath == "/ws/chat"

\* the request urls the server sees, and the pathname `new URL` gives each
UpgradeUrls == { "/ws/chat", "/ws/chat?room=1", "/metrics" }

Pathname(url) == IF url = "/metrics" THEN "/metrics" ELSE "/ws/chat"

\* the Origin header: absent, or one of two origins
Origins == { Null, Some("https://app.example"), Some("https://evil.example") }

\* the checkOrigin options: none, or a predicate given by the origins it
\* admits ("" is what a request without the header is checked as)
CheckOrigins ==
  { Null, Some({ "https://app.example" }), Some({ "https://app.example", "" }) }

\* variant of OriginRefused that checks nothing
OriginRefused_never(origin) == FALSE

\* lines 412-418: the predicate is configured and refuses the origin
OriginRefused(origin) ==
  /\ ~IsNull(checkOrigin)
  /\ (IF IsNull(origin) THEN "" ELSE Val(origin)) \notin Val(checkOrigin)

\* the server emits 'upgrade': upgradeHandler runs
UpgradeRequest ==
  /\ Len(upgrades) < MaxUpgrades
  /\ \E url \in UpgradeUrls, origin \in Origins :
       upgrades' = Append(upgrades,
         [ url |-> url, origin |-> origin, sessions |-> 0,
           destroyed |-> Pathname(url) = HandlerPath /\ OriginRefused(origin),
           pc |-> IF Pathname(url) # HandlerPath THEN "ignored"
                  ELSE IF OriginRefused(origin) THEN "refused"
                  ELSE "handshake" ])
  /\ UNCHANGED << bridgeVars, clientVars, cb, rq, checkOrigin, errVars >>

\* wss.handleUpgrade has completed the handshake: its callback emits
\* 'connection', whose listener calls handleConnection, which creates one
\* WSSession and runs it
HandleConnection(i) ==
  /\ i \in 1..Len(upgrades)
  /\ upgrades[i].pc = "handshake"
  /\ upgrades' = [ upgrades EXCEPT ![i].pc = "connected",
                                   ![i].sessions = @ + 1 ]
  /\ UNCHANGED << bridgeVars, clientVars, cb, rq, checkOrigin, errVars >>

\* ----------------------------------------------------------------- actions
\* variant of WSMessage that closes the socket after a frame it could not
\* parse
WSMessage_closing ==
  /\ readyState = WS_OPEN
  /\ Len(inbound) < MaxInbound
  /\ \E raw \in RawFrames :
       /\ HandleMessage(raw)
       /\ readyState' = IF JSONParse(raw).ok THEN readyState ELSE WS_CLOSING
  /\ UNCHANGED llmVars

\* the socket delivers a text frame
WSMessage ==
  /\ readyState = WS_OPEN
  /\ Len(inbound) < MaxInbound
  /\ \E raw \in RawFrames : HandleMessage(raw)
  /\ UNCHANGED << readyState, llmVars >>

\* the socket reports an error: 'error' listener -> cleanup
SocketError ==
  /\ readyState = WS_OPEN
  /\ readyState' = WS_CLOSING
  /\ abortController' = CleanupController
  /\ started' = FALSE
  /\ UNCHANGED << sent, inbound, uncaught, nStreams, gen, wire, reader, yielded,
                  llmVars >>

\* the socket closes: 'close' listener -> cleanup
SocketClose ==
  /\ readyState \in { WS_OPEN, WS_CLOSING }
  /\ readyState' = WS_CLOSED
  /\ abortController' = CleanupController
  /\ started' = FALSE
  /\ UNCHANGED << sent, inbound, uncaught, nStreams, gen, wire, reader, yielded,
                  llmVars >>

\* getClient() has resolved: chatStream opens the duplex stream, writes the
\* start envelope, registers its listeners and enters the while loop
ClientReady(s) ==
  /\ gen[s].pc = "getClient"
  /\ wire' = [ wire EXCEPT ![s].state = "open",
                           ![s].written = Append(@, StartEnvelope(Val(gen[s].input))) ]
  /\ gen' = [ gen EXCEPT ![s] = Loop(@) ]
  /\ yielded' = Yielded(s, gen'[s])
  /\ UNCHANGED << sockVars, llmVars, sent, nStreams, reader >>

NextIndex(s) ==
  Cardinality({ i \in 1..Len(wire[s].emitted) : wire[s].emitted[i].kind = "chunk" })

DataFrames(s) ==
  { ChunkFrame(NextIndex(s)) }
    \cup { CompletionFrame(m) : m \in CompletionMsgs }
    \cup { ErrorFrame(e) : e \in ErrorMsgs }
    \cup { AbortedFrame }

\* The listeners stay registered after the generator has ended, but what
\* they assign is never read again: events are followed up to that point.
Listening(s) == gen[s].pc \in { "wait", "yielded" }

\* the duplex stream emits 'data'
TransportData(s, max) ==
  /\ wire[s].state = "open"
  /\ Listening(s)
  /\ Len(wire[s].emitted) < max
  /\ \E f \in DataFrames(s) :
       /\ wire' = [ wire EXCEPT ![s].emitted = Append(@, f) ]
       /\ gen' = [ gen EXCEPT ![s] = OnData(@, f) ]
  /\ UNCHANGED << sockVars, llmVars, sent, nStreams, reader, yielded >>

\* the duplex stream emits 'data' with an envelope that has none of its
\* fields set
TransportEmpty(s, max) ==
  /\ wire[s].state = "open"
  /\ Listening(s)
  /\ Len(wire[s].emitted) < max
  /\ wire' = [ wire EXCEPT ![s].emitted = Append(@, EmptyFrame) ]
  /\ gen' = [ gen EXCEPT ![s] = OnData(@, EmptyFrame) ]
  /\ UNCHANGED << sockVars, llmVars, sent, nStreams, reader, yielded >>

\* the duplex stream emits 'error'
TransportError(s, max) ==
  /\ wire[s].state = "open"
  /\ Listening(s)
  /\ Len(wire[s].emitted) < max
  /\ \E err \in StreamErrs :
       /\ wire' = [ wire EXCEPT ![s].emitted =
                        Append(@, [kind |-> "streamError", err |-> err]),
                                 ![s].state = "errored" ]
       /\ gen' = [ gen EXCEPT ![s] = OnStreamError(@, err) ]
  /\ UNCHANGED << sockVars, llmVars, sent, nStreams, reader, yielded >>

\* the duplex stream emits 'end'
TransportEnd(s, max) ==
  /\ wire[s].state \in { "open", "errored" }
  /\ Listening(s)
  /\ Len(wire[s].emitted) < max
  /\ wire' = [ wire EXCEPT ![s].emitted = Append(@, [kind |-> "end"]),
                           ![s].state = "ended" ]
  /\ gen' = [ gen EXCEPT ![s] = OnStreamEnd(@) ]
  /\ UNCHANGED << sockVars, llmVars, sent, nStreams, reader, yielded >>

\* the promise awaited at line 284 has settled and chatStream resumes
Resume(s) ==
  /\ gen[s].pc = "wait"
  /\ ~IsNull(gen[s].result)
  /\ gen' = [ gen EXCEPT ![s] = AfterAwait(@) ]
  /\ yielded' = Yielded(s, gen'[s])
  /\ UNCHANGED << sockVars, llmVars, sent, nStreams, wire, reader >>

\* variant of WSChunkOf that does not copy the index
WSChunkOf_noindex(c) == [ content |-> c.content, index |-> 0 ]

\* the chunk frame payload built at lines 263-266
WSChunkOf(c) == [ content |-> c.content, index |-> c.index ]

\* readStreamResponses: the for-await body for one chunk, then next()
Forward(s) ==
  /\ reader[s].pc = "reading"
  /\ gen[s].pc = "yielded"
  /\ LET c == Val(gen[s].out) IN
       /\ reader' = [ reader EXCEPT ![s].fullContent = @ \o c.content ]
       /\ sent' = Send(sent, s, "chunk", WSChunkOf(c))
  /\ gen' = [ gen EXCEPT ![s] = AfterYield(@) ]
  /\ yielded' = Yielded(s, gen'[s])
  /\ UNCHANGED << sockVars, llmVars, nStreams, wire >>

\* readStreamResponses: the generator has returned or thrown
Finish(s) ==
  /\ reader[s].pc = "reading"
  /\ gen[s].pc = "finished"
  /\ reader' = [ reader EXCEPT ![s].pc = "closed" ]
  /\ sent' = IF Val(gen[s].outcome).kind = "returned"
               THEN Send(sent, s, "completion",
                      [ fullContent  |-> reader[s].fullContent,
                        stopReason   |-> "end_turn",
                        inputTokens  |-> 0,
                        outputTokens |-> 0,
                        costUsd      |-> 0,
                        latencyMs    |-> 0 ])
               ELSE SendError(sent, s, "stream_error",
                              Val(gen[s].outcome).error, FALSE)
  /\ UNCHANGED << sockVars, llmVars, nStreams, gen, wire, yielded >>

\* a new LLMClient: the client field is null (line 118), no call is running
InitLLM ==
  /\ client = 0
  /\ constructed = 0
  /\ released = <<>>
  /\ closeCalls = 0
  /\ call = [ c \in Calls |-> NewCall ]
  /\ cb = NewCb
  /\ rq = [ r \in Reqs |-> NewReq ]

\* a WebSocketHandler without options, and no createAPIError call
InitRest ==
  /\ checkOrigin = Null
  /\ upgrades = <<>>
  /\ errIn = Null
  /\ errOut = Null

\* a new WSSession on an open socket
InitSession ==
  /\ readyState = WS_OPEN
  /\ started = FALSE
  /\ abortController = "null"
  /\ sent = <<>>
  /\ inbound = <<>>
  /\ uncaught = 0
  /\ nStreams = 0
  /\ gen = [ s \in Streams |-> NewGen ]
  /\ wire = [ s \in Streams |-> NewWire ]
  /\ reader = [ s \in Streams |-> NewReader ]
  /\ yielded = [ s \in Streams |-> <<>> ]

Init ==
  /\ InitSession
  /\ InitLLM
  /\ InitRest

Next ==
  \/ WSMessage
  \/ SocketError
  \/ SocketClose
  \/ \E s \in Streams : ClientReady(s)
  \/ \E s \in Streams : TransportData(s, MaxSockEvents)
  \/ \E s \in Streams : TransportError(s, MaxSockEvents)
  \/ \E s \in Streams : TransportEnd(s, MaxSockEvents)
  \/ \E s \in Streams : Resume(s)
  \/ \E s \in Streams : Forward(s)
  \/ \E s \in Streams : Finish(s)

Spec == Init /\ [][Next]_vars

\* One chatStream run and its consumer on their own: the state right after
\* the socket's first start frame was accepted, from which only the stream,
\* the generator and readStreamResponses take steps.  (Spec reaches this
\* state by WSMessage with RawStart.)
InitStream ==
  /\ readyState = WS_OPEN
  /\ started = TRUE
  /\ abortController = "live"
  /\ sent = << [ type |-> "started", sid |-> 1,
                 data |-> [ sessionId |-> "uuid", provider |-> "anthropic",
                            model |-> "sonnet" ] ] >>
  /\ inbound = << RawStart >>
  /\ uncaught = 0
  /\ nStreams = 1
  /\ gen = [ s \in Streams |->
               IF s = 1
                 THEN [ NewGen EXCEPT !.pc = "getClient",
                                      !.input = Some([ model |-> Null ]) ]
                 ELSE NewGen ]
  /\ wire = [ s \in Streams |-> NewWire ]
  /\ reader = [ s \in Streams |->
                  IF s = 1 THEN [ NewReader EXCEPT !.pc = "reading" ] ELSE NewReader ]
  /\ yielded = [ s \in Streams |-> <<>> ]
  /\ InitLLM
  /\ InitRest

NextStream ==
  \/ \E s \in Streams : ClientReady(s)
  \/ \E s \in Streams : TransportData(s, MaxEvents)
  \/ \E s \in Streams : TransportEmpty(s, MaxEvents)
  \/ \E s \in Streams : TransportError(s, MaxEvents)
  \/ \E s \in Streams : TransportEnd(s, MaxEvents)
  \/ \E s \in Streams : Resume(s)
  \/ \E s \in Streams : Forward(s)
  \/ \E s \in Streams : Finish(s)

SpecStream == InitStream /\ [][NextStream]_vars

\* The same run with the scheduling the event loop gives it: a settled
\* promise's continuation is run (Resume), and readStreamResponses, which
\* awaits nothing but the generator inside its for-await loop, pulls again
\* after each chunk (Forward) and leaves the loop when the generator ends
\* (Finish).  The transport is under no obligation to emit anything.
SpecStreamFair ==
  /\ SpecStream
  /\ \A s \in Streams : /\ WF_vars(Resume(s))
                        /\ WF_vars(Forward(s))
                        /\ WF_vars(Finish(s))

\* One LLMClient used directly by concurrent chat / chatStream calls and by
\* close: each call is followed up to the point where it holds its client.
NextClient ==
  \/ \E c \in Calls : GetClient(c)
  \/ \E c \in Calls : ProtoLoaded(c)
  \/ Close

SpecClient == Init /\ [][NextClient]_vars

\* One chatStreamCallback call on an LLMClient used directly.
NextCallback ==
  \/ CallbackStart
  \/ \E s \in Streams : ClientReady(s)
  \/ \E s \in Streams : TransportData(s, MaxCbEvents)
  \/ \E s \in Streams : TransportError(s, MaxCbEvents)
  \/ \E s \in Streams : TransportEnd(s, MaxCbEvents)
  \/ \E s \in Streams : Resume(s)
  \/ CallbackChunk
  \/ CallbackEnd

SpecCallback == Init /\ [][NextCallback]_vars

\* The non-streaming calls: Levee.request, Levee.requestVoid, LLMClient.chat.
NextRequest ==
  \/ \E r \in Reqs : CallRequest(r)
  \/ \E r \in Reqs : CallChat(r)
  \/ \E r \in Reqs : TimeoutElapses(r)
  \/ \E r \in Reqs : TimerFires(r)
  \/ \E r \in Reqs : FetchResolves(r)
  \/ \E r \in Reqs : FetchRejects(r)
  \/ \E r \in Reqs : BodyRead(r)
  \/ \E r \in Reqs : ChatCallback(r)

SpecRequest == Init /\ [][NextRequest]_vars

\* A WebSocketHandler attached to an HTTP server, with any of the
\* checkOrigin options.
InitAttach ==
  /\ InitSession
  /\ InitLLM
  /\ checkOrigin \in CheckOrigins
  /\ upgrades = <<>>
  /\ errIn = Null
  /\ errOut = Null

NextAttach ==
  \/ UpgradeRequest
  \/ \E i \in 1..MaxUpgrades : HandleConnection(i)

SpecAttach == InitAttach /\ [][NextAttach]_vars

\* createAPIError on its own, for every status and both kinds of headers.
InitErrors ==
  /\ InitSession
  /\ InitLLM
  /\ checkOrigin = Null
  /\ upgrades = <<>>
  /\ errIn \in { Some([ message |-> "boom", status |-> s, headers |-> h ]) :
                    s \in Statuses, h \in { NoHeaders, RetryHeaders } }
  /\ errOut = Null

NextErrors == CreateError

SpecErrors == InitErrors /\ [][NextErrors]_vars


\* =================================================================== claims
Finished(s) == gen[s].pc = "finished"
Outcome(s)  == Val(gen[s].outcome)
Emitted(s)  == wire[s].emitted

\* the events the listeners of s have handled
Seen(s) == Emitted(s)

KindsIn(ev) == { ev[i].kind : i \in 1..Len(ev) }

\* the chunks carried by the chunk events of ev, in order
ChunksOf(ev) ==
  LET F[i \in 0..Len(ev)] ==
        IF i = 0 THEN <<>>
        ELSE IF ev[i].kind = "chunk" THEN Append(F[i-1], ev[i].chunk)
                                     ELSE F[i-1]
  IN  F[Len(ev)]

\* ev is N chunk events, then one completion event, then at most 'end'
ChunksThenCompletion(ev) ==
  \E n \in 0..Len(ev) :
    /\ n < Len(ev)
    /\ \A i \in 1..n : ev[i].kind = "chunk"
    /\ ev[n+1].kind = "completion"
    /\ \/ Len(ev) = n + 1
       \/ Len(ev) = n + 2 /\ ev[n+2].kind = "end"

CompletionOf(ev) ==
  ev[CHOOSE i \in 1..Len(ev) : ev[i].kind = "completion"].completion

\* C1: when the transport has emitted N chunk events followed by one
\* completion event, the finished chatStream run has yielded exactly those
\* N chunks, once each and in arrival order, and has returned the
\* ChatResponse holding that completion's fields.
C1_YieldsAllThenReturns ==
  \A s \in Streams :
    (Finished(s) /\ ChunksThenCompletion(Emitted(s))) =>
      /\ yielded[s] = ChunksOf(Emitted(s))
      /\ Outcome(s).kind = "returned"
      /\ Outcome(s).value =
           Some([ content      |-> CompletionOf(Emitted(s)).fullContent,
                  inputTokens  |-> CompletionOf(Emitted(s)).inputTokens,
                  outputTokens |-> CompletionOf(Emitted(s)).outputTokens,
                  costUsd      |-> CompletionOf(Emitted(s)).costUsd,
                  latencyMs    |-> CompletionOf(Emitted(s)).latencyMs,
                  stopReason   |-> CompletionOf(Emitted(s)).stopReason ])

\* three chunks and a completion were emitted, and the run has ended after
\* yielding three chunks
C1_Witness ==
  \E s \in Streams :
    /\ Finished(s)
    /\ ChunksThenCompletion(Emitted(s))
    /\ Len(ChunksOf(Emitted(s))) = 3
    /\ Len(yielded[s]) = 3
    /\ Outcome(s).kind = "returned"

\* position in the emitted events of the chunk numbered idx
EmitPos(s, idx) ==
  CHOOSE i \in 1..Len(Emitted(s)) :
    Emitted(s)[i].kind = "chunk" /\ Emitted(s)[i].chunk.index = idx

TerminalKinds == { "completion", "error", "aborted" }

EmittedAfterTerminal(s, idx) ==
  \E j \in 1..(EmitPos(s, idx) - 1) : Emitted(s)[j].kind \in TerminalKinds

\* C2: no chunk that the transport emitted after a completion, error or
\* aborted event is yielded by chatStream or sent as a chunk frame.
C2_NoChunkAfterTerminal ==
  /\ \A s \in Streams : \A k \in 1..Len(yielded[s]) :
       ~EmittedAfterTerminal(s, yielded[s][k].index)
  /\ \A i \in 1..Len(sent) :
       sent[i].type = "chunk" => ~EmittedAfterTerminal(sent[i].sid, sent[i].data.index)

\* C3: a run that ended after the stream's 'end', with no completion and no
\* error having arrived, raised 'Stream ended without completion'.
C3_EndWithoutCompletionThrows ==
  \A s \in Streams :
    ( /\ Finished(s)
      /\ "end" \in KindsIn(Seen(s))
      /\ KindsIn(Seen(s)) \cap { "completion", "error", "streamError" } = {} )
    => /\ Outcome(s).kind = "threw"
       /\ Outcome(s).error = "Stream ended without completion"

\* index in Seen(s) of the last event that set the error variable
LastErrorPos(s) ==
  CHOOSE i \in 1..Len(Seen(s)) :
    /\ Seen(s)[i].kind \in { "error", "streamError" }
    /\ \A j \in (i+1)..Len(Seen(s)) : Seen(s)[j].kind \notin { "error", "streamError" }

Handled == Len(inbound') = Len(inbound) + 1

\* the frame handled by this step, as parsed
In == JSONParse(Last(inbound'))

InType(t) == Handled /\ In.ok /\ In.isObj /\ In.type = t

\* a start was accepted and its stream has not sent its terminal frame
Active == started /\ nStreams >= 1 /\ reader[nStreams].pc = "reading"

\* the stream of the last accepted start has sent its terminal frame
Completed == nStreams >= 1 /\ reader[nStreams].pc = "closed"

IsError(f, code) == f.type = "error" /\ f.data.code = code

\* this step sends exactly one frame, an error frame with the given code
RepliesError(code) ==
  /\ Len(sent') = Len(sent) + 1
  /\ SubSeq(sent', 1, Len(sent)) = sent
  /\ IsError(Last(sent'), code)

\* C5: a start frame handled while a session is active is answered with
\* exactly one already_started error frame, creates no stream, writes nothing
\* to any transport and leaves the running session as it was.
C5_SecondStartRejected ==
  [][ (Active /\ InType("start")) =>
        /\ RepliesError("already_started")
        /\ nStreams' = nStreams
        /\ wire' = wire
        /\ gen' = gen
        /\ reader' = reader
        /\ started' = started ]_vars

\* a second start was refused and the first session went on to send a chunk
\* frame and its completion frame
C5_Witness ==
  \E i, j, k \in 1..Len(sent) :
    /\ i < j /\ j < k
    /\ IsError(sent[i], "already_started")
    /\ sent[j].type = "chunk" /\ sent[j].sid = 1
    /\ sent[k].type = "completion" /\ sent[k].sid = 1
    /\ nStreams = 1

\* C6: once the forwarded stream has sent its terminal frame the connection
\* is idle again: a start frame is accepted and starts a new session, and a
\* message or tool_result frame is answered with not_started.
C6_IdleAfterCompletion ==
  [][ Completed =>
        /\ (InType("start") /\ ~IsNull(In.data)) =>
              /\ nStreams' = nStreams + 1
              /\ Last(sent').type = "started"
        /\ (InType("message") \/ InType("tool_result")) =>
              RepliesError("not_started") ]_vars

\* C7: in the idle state a message or tool_result frame is answered with
\* exactly one not_started error frame and an abort frame with nothing; the
\* session stays idle and no stream is opened or written to.
C7_IdleRejects ==
  [][ ~started =>
        /\ (InType("message") \/ InType("tool_result")) =>
              RepliesError("not_started")
        /\ InType("abort") => sent' = sent
        /\ (InType("message") \/ InType("tool_result") \/ InType("abort")) =>
              /\ started' = FALSE
              /\ abortController' = abortController
              /\ nStreams' = nStreams
              /\ wire' = wire
              /\ gen' = gen ]_vars

\* message, tool_result and abort have all been handled in the idle state
C7_Witness ==
  /\ ~started
  /\ nStreams = 0
  /\ Len(inbound) = 2
  /\ JSONParse(inbound[1]).type = "abort"
  /\ JSONParse(inbound[2]).type = "tool_result"
  /\ Len(sent) = 1
  /\ IsError(sent[1], "not_started")

\* the frames sent on behalf of stream s
FramesOf(s) == SelectSeq(sent, LAMBDA f : f.sid = s)

\* C8: the frames of an accepted start are one started frame, then one chunk
\* frame per chunk chatStream yielded, in that order, then at most one
\* terminal frame, which is a completion frame when the stream ended
\* normally; nothing follows the terminal frame.
C8_FrameOrder ==
  \A s \in 1..nStreams :
    LET fs == FramesOf(s) IN
      /\ Len(fs) >= 1
      /\ fs[1].type = "started"
      /\ \A i \in 2..Len(fs) :
           \/ /\ fs[i].type = "chunk"
              /\ i - 1 <= Len(yielded[s])
              /\ fs[i].data = [ content |-> yielded[s][i-1].content,
                                index   |-> yielded[s][i-1].index ]
           \/ /\ fs[i].type \in { "completion", "error" }
              /\ i = Len(fs)
              /\ reader[s].pc = "closed"
              /\ i = Len(yielded[s]) + 2
              /\ (fs[i].type = "completion") = (Outcome(s).kind = "returned")
      /\ (reader[s].pc = "closed" /\ readyState = WS_OPEN) =>
           /\ Len(fs) = Len(yielded[s]) + 2
           /\ fs[Len(fs)].type \in { "completion", "error" }

\* a session has sent started, two chunk frames and its completion frame
C8_Witness ==
  \E s \in 1..nStreams :
    /\ Len(FramesOf(s)) = 4
    /\ FramesOf(s)[3].type = "chunk"
    /\ FramesOf(s)[4].type = "completion"

\* C9: the completion frame carries the fields of the completion event the
\* transport delivered for that session.
C9_CompletionFromAggregate ==
  \A i \in 1..Len(sent) :
    sent[i].type = "completion" =>
      \E j \in 1..Len(Emitted(sent[i].sid)) :
        LET e == Emitted(sent[i].sid)[j] IN
          /\ e.kind = "completion"
          /\ sent[i].data = [ fullContent  |-> e.completion.fullContent,
                              stopReason   |-> e.completion.stopReason,
                              inputTokens  |-> e.completion.inputTokens,
                              outputTokens |-> e.completion.outputTokens,
                              costUsd      |-> e.completion.costUsd,
                              latencyMs    |-> e.completion.latencyMs ]

\* an abort envelope has been written to the duplex stream of s
CancelIssued(s) ==
  \E i \in 1..Len(wire[s].written) : wire[s].written[i].kind = "abort"

\* C10: an abort frame handled while a session is active, or the socket's
\* close or error event while it is active, issues an abort on the
\* session's duplex stream.
C10_AbortPropagates ==
  [][ (Active /\ (InType("abort") \/ readyState' # readyState)) =>
        CancelIssued(nStreams)' ]_vars

\* C11: once the socket's close or error event has been handled, no step of
\* the bridge adds a frame to what was sent on that socket, whatever the
\* stream of the session that was active goes on to emit.
C11_SilentAfterClose ==
  [][ readyState # WS_OPEN => sent' = sent ]_vars

\* the socket went down while the session was active after its started
\* frame; the generator later yielded a chunk and returned, and
\* readStreamResponses ran to its end without a frame being sent
C11_Witness ==
  /\ readyState # WS_OPEN
  /\ nStreams = 1
  /\ reader[1].pc = "closed"
  /\ Len(yielded[1]) = 1
  /\ Outcome(1).kind = "returned"
  /\ Len(sent) = 1
  /\ sent[1].type = "started"

\* the positions in the frames of stream s that hold a terminal frame
TerminalFrames(s) ==
  { i \in 1..Len(FramesOf(s)) : FramesOf(s)[i].type \in { "completion", "error" } }

RejectCodes == { "already_started", "not_started", "not_implemented", "invalid_json" }

\* C12: a stream started by an accepted start never has more than one
\* terminal frame (completion or error) among its frames, has none while it
\* is still being forwarded, and has exactly one once readStreamResponses
\* has ended on a socket that is still open; and a step that answers an
\* inbound frame with an already_started, not_started, not_implemented or
\* invalid_json error sends a frame that belongs to no stream and leaves
\* started, the generators, the readers and the transports as they were.
C12_OneTerminalFrame ==
  [][ /\ \A s \in 1..nStreams' :
           /\ Cardinality(TerminalFrames(s)') <= 1
           /\ reader'[s].pc = "reading" => TerminalFrames(s)' = {}
           /\ (reader'[s].pc = "closed" /\ readyState' = WS_OPEN) =>
                 Cardinality(TerminalFrames(s)') = 1
      /\ (Handled /\ \E c \in RejectCodes : RepliesError(c)) =>
           /\ Last(sent').sid = 0
           /\ started' = started
           /\ gen' = gen
           /\ reader' = reader
           /\ wire' = wire ]_vars

\* on an open socket a message frame was rejected while the session was
\* active, and the session then ended with its one terminal error frame
C12_Witness ==
  /\ readyState = WS_OPEN
  /\ nStreams = 1
  /\ reader[1].pc = "closed"
  /\ \E i, j \in 1..Len(sent) :
       /\ i < j
       /\ IsError(sent[i], "not_implemented") /\ sent[i].sid = 0
       /\ IsError(sent[j], "stream_error") /\ sent[j].sid = 1
  /\ Cardinality(TerminalFrames(1)) = 1

\* stream s is live and its chunks are being forwarded to the socket
Forwarding(s) == reader[s].pc = "reading"

Holding == { c \in Calls : call[c].pc = "has" }

\* C14: until close is called, the service client is constructed at most
\* once and all calls that hold a client hold the same one.
C14_OneClient ==
  closeCalls = 0 =>
    /\ constructed <= 1
    /\ \A c, d \in Holding : call[c].client = call[d].client

\* the start envelopes written to the duplex stream of s
StartsWritten(s) ==
  Cardinality({ i \in 1..Len(wire[s].written) : wire[s].written[i].kind = "start" })

\* C15: a chatStreamCallback call that has returned opened one stream: one
\* start envelope was written in all, onChunk was called with exactly the
\* chunks that stream yielded, in order, and the value returned is the
\* ChatResponse that same stream returned.
C15_ConsumesOnce ==
  cb.pc = "returned" =>
    \E s \in Streams :
      /\ StartsWritten(s) = 1
      /\ \A u \in Streams : u # s => StartsWritten(u) = 0
      /\ cb.onChunk = yielded[s]
      /\ Outcome(s).kind = "returned"
      /\ cb.value = Outcome(s).value

\* this step is a call of LLMClient.close
Closing == closeCalls' = closeCalls + 1

\* C16: a call of close never hands null to grpc.closeClient (which is what
\* would raise), hands it no client it was handed before, releases the
\* client held and clears the field, and when no client is held (never
\* opened, or closed already) changes nothing; no call of close touches a
\* generator, a duplex stream or a running call.
C16_CloseIdempotent ==
  [][ Closing =>
        /\ client' = 0
        /\ IF client = 0 THEN released' = released
                         ELSE released' = Append(released, client)
        /\ \A i, j \in 1..Len(released') :
             /\ released'[i] # 0
             /\ i # j => released'[i] # released'[j]
        /\ constructed' = constructed
        /\ call' = call
        /\ cb' = cb
        /\ bridgeVars' = bridgeVars ]_vars

\* close was called twice and the one client constructed was released once
C16_Witness ==
  /\ closeCalls = 2
  /\ constructed = 1
  /\ released = << 1 >>
  /\ client = 0
  /\ \E c \in Calls : call[c] = [ pc |-> "has", client |-> 1 ]

\* C17: a text frame that JSON.parse rejects is answered with exactly one
\* error frame with code invalid_json and retryable false, and the step
\* changes nothing else: started, the controller, the generators, their
\* streams and the forwarding stay as they were and nothing is thrown.
C17_InvalidJson ==
  [][ (Handled /\ Last(inbound') = RawGarbage) =>
        /\ RepliesError("invalid_json")
        /\ Last(sent').data.retryable = FALSE
        /\ started' = started
        /\ abortController' = abortController
        /\ uncaught' = uncaught
        /\ nStreams' = nStreams
        /\ gen' = gen
        /\ wire' = wire
        /\ reader' = reader
        /\ yielded' = yielded ]_vars

\* an unparsable frame was answered while the stream was being forwarded:
\* a chunk frame went out before the invalid_json reply and one after it
C17_Witness ==
  \E i, j, k \in 1..Len(sent) :
    /\ i < j /\ j < k
    /\ sent[i].type = "chunk"
    /\ IsError(sent[j], "invalid_json")
    /\ sent[k].type = "chunk"
    /\ inbound = << RawStart, RawGarbage >>

\* C18: a message or tool_result frame handled while a session is active
\* is answered with exactly one error frame with code not_implemented,
\* nothing is written to a duplex stream, and the generator, the forwarding
\* and the session's fields stay as they were.
C18_ActiveRejects ==
  [][ (Active /\ (InType("message") \/ InType("tool_result"))) =>
        /\ RepliesError("not_implemented")
        /\ Last(sent').sid = 0
        /\ wire' = wire
        /\ gen' = gen
        /\ reader' = reader
        /\ yielded' = yielded
        /\ nStreams' = nStreams
        /\ started' = started
        /\ abortController' = abortController ]_vars

\* a tool_result frame was rejected while the session was active, and the
\* session went on to its completion frame
C18_Witness ==
  /\ inbound = << RawStart, RawToolResult >>
  /\ \E i, j, k \in 1..Len(sent) :
       /\ i < j /\ j < k
       /\ sent[i].type = "started"
       /\ IsError(sent[j], "not_implemented")
       /\ sent[k].type = "completion" /\ sent[k].sid = 1

\* this step is the 'data' listener of s handling an envelope that is no
\* chunk, completion or error
UnrecognizedHandled(s) ==
  /\ Len(Emitted(s)') = Len(Emitted(s)) + 1
  /\ Last(Emitted(s)').kind = "empty"

\* C19: the 'data' listener does not drop an envelope that is no chunk,
\* completion or error: handling it changes what the generator will
\* deliver to its consumer.
C19_UnrecognizedSurfaced ==
  [][ \A s \in Streams : UnrecognizedHandled(s) => gen'[s] # gen[s] ]_vars

\* this step is one of the bridge's own: a frame is handled, a frame is
\* sent, or chatStream or readStreamResponses moves
BridgeStep ==
  \/ inbound' # inbound
  \/ sent' # sent
  \/ gen' # gen
  \/ reader' # reader
  \/ wire' # wire

\* C20: no step of the bridge changes the socket's readyState; in
\* particular the socket is as open after a terminal frame, an error reply
\* or an ignored abort as it was before, and the next text frame is handled.
C20_NeverCloses ==
  [][ BridgeStep => readyState' = readyState ]_vars

\* the session ran to its completion frame, and a frame that could not be
\* parsed was then answered on the socket, which is still open
C20_Witness ==
  /\ readyState = WS_OPEN
  /\ inbound = << RawStart, RawGarbage >>
  /\ \E i, j \in 1..Len(sent) :
       /\ i < j
       /\ sent[i].type = "completion"
       /\ IsError(sent[j], "invalid_json")

\* ---- the non-streaming calls
\* C21: a call that is still waiting for its response when the configured
\* timeout has passed has a timer armed that will fail it, and a call that
\* has ended has no timer left armed.
C21_BoundedByTimeout ==
  \A r \in Reqs :
    /\ (rq[r].pc = "fetching" /\ rq[r].elapsed) => rq[r].timer = "armed"
    /\ rq[r].pc = "done" => rq[r].timer # "armed"

\* ---- the handler side
\* the origin of upgrade request u as the predicate is given it
OriginOf(u) == IF IsNull(u.origin) THEN "" ELSE Val(u.origin)

\* C22: with a checkOrigin predicate configured, an upgrade request on the
\* handler's path whose origin the predicate refuses has had its socket
\* destroyed and has no WSSession; one whose origin it admits keeps its
\* socket, never has more than one WSSession, and has exactly one once the
\* handshake is done.
C22_OriginChecked ==
  ~IsNull(checkOrigin) =>
    \A i \in 1..Len(upgrades) :
      LET u == upgrades[i] IN
        Pathname(u.url) = HandlerPath =>
          IF OriginOf(u) \notin Val(checkOrigin)
            THEN u.destroyed /\ u.sessions = 0 /\ u.pc = "refused"
            ELSE /\ ~u.destroyed
                 /\ u.sessions <= 1
                 /\ u.pc = "connected" => u.sessions = 1

\* with a predicate configured, a request without Origin header was
\* refused and one from an admitted origin has its session
C22_Witness ==
  /\ checkOrigin = Some({ "https://app.example" })
  /\ Len(upgrades) = 2
  /\ IsNull(upgrades[1].origin) /\ upgrades[1].destroyed
  /\ upgrades[2].origin = Some("https://app.example")
  /\ upgrades[2].url = "/ws/chat?room=1"
  /\ upgrades[2].sessions = 1

\* ---- the error classes
\* the class the claim assigns to a status
ClassFor(status) ==
  CASE status = 400 -> "BadRequestError"
    [] status = 401 -> "AuthenticationError"
    [] status = 403 -> "PermissionError"
    [] status = 404 -> "NotFoundError"
    [] status = 429 -> "RateLimitError"
    [] status \notin { 400, 401, 403, 404, 429 } /\ status >= 500 -> "InternalServerError"
    [] OTHER -> "APIError"

\* C23: what createAPIError returns has the status it was given and the
\* class that status selects (400, 401, 403, 404, 429 their own class, any
\* other status from 500 up InternalServerError, else APIError), and is an
\* APIError and a LeveeError; and the typed classes, constructed directly,
\* carry 400, 401, 403, 404 and 429.
C23_ClassByStatus ==
  /\ ~IsNull(errOut) =>
       /\ Val(errOut).status = Val(errIn).status
       /\ Val(errOut).name = ClassFor(Val(errIn).status)
       /\ Val(errOut).name \in Val(errOut).isa
       /\ { "APIError", "LeveeError" } \subseteq Val(errOut).isa
       /\ Val(errOut).message = Val(errIn).message
  /\ BadRequestError("m", NoHeaders, Null).status = 400
  /\ AuthenticationError("m", NoHeaders, Null).status = 401
  /\ PermissionError("m", NoHeaders, Null).status = 403
  /\ NotFoundError("m", NoHeaders, Null).status = 404
  /\ RateLimitError("m", NoHeaders, Null, Null).status = 429

\* createAPIError was called with 500 and returned an InternalServerError
C23_Witness ==
  /\ ~IsNull(errOut)
  /\ Val(errIn).status = 500
  /\ Val(errOut).name = "InternalServerError"
  /\ Val(errOut).status = 500

\* ---- the handoff inside chatStream
\* this step is the 'data' listener of s handling a chunk event
ChunkArrives(s) ==
  /\ Len(Emitted(s)') = Len(Emitted(s)) + 1
  /\ Last(Emitted(s)').kind = "chunk"

\* C24: after every step the chunk buffer is empty or no consumer is waiting
\* on resolveNext; the loop installs a resolver only when none is pending;
\* and a chunk that arrives while a consumer waits settles its promise with
\* that chunk, clears resolveNext and leaves the buffer alone, while one
\* that arrives otherwise is appended to the buffer and nothing else.
C24_BufferOrWaiter ==
  [][ \A s \in Streams :
        /\ ~(Len(gen'[s].chunks) > 0 /\ gen'[s].resolveNext)
        /\ (gen'[s].resolveNext /\ gen[s].pc # "wait") => ~gen[s].resolveNext
        /\ ChunkArrives(s) =>
             IF gen[s].resolveNext
               THEN /\ gen'[s].chunks = gen[s].chunks
                    /\ ~gen'[s].resolveNext
                    /\ gen'[s].result =
                         Some(IteratorChunk(Last(Emitted(s)').chunk))
               ELSE gen'[s] = [ gen[s] EXCEPT
                                  !.chunks = Append(@, Last(Emitted(s)').chunk) ]
    ]_vars

\* the first chunk was handed to the waiting consumer and yielded, and two
\* more have since been buffered
C24_Witness ==
  \E s \in Streams :
    /\ gen[s].pc = "yielded"
    /\ Len(yielded[s]) = 1
    /\ yielded[s][1].index = 0
    /\ Len(gen[s].chunks) = 2
    /\ ~gen[s].resolveNext
    /\ Emitted(s)[1].kind = "chunk"

\* ---- abort
IsPrefix(p, q) == Len(p) <= Len(q) /\ SubSeq(q, 1, Len(p)) = p

\* the events of s up to its first terminal event
BeforeTerminal(s) ==
  LET ev == Emitted(s)
      T  == { i \in 1..Len(ev) :
                ev[i].kind \in { "completion", "error", "streamError", "end" } }
  IN  IF T = {} THEN ev
      ELSE SubSeq(ev, 1, (CHOOSE i \in T : \A j \in T : i <= j) - 1)

\* the payloads of the chunk frames sent for s, in order
ChunkFramesOf(s) ==
  LET fs == SelectSeq(FramesOf(s), LAMBDA f : f.type = "chunk")
  IN  [ i \in 1..Len(fs) |-> fs[i].data ]

\* the chunks of s that arrived and are not yet yielded: the one a settled
\* promise carries, then the buffer
Held(s) ==
  (IF ~IsNull(gen[s].result) /\ ~Val(gen[s].result).done
     THEN << Val(Val(gen[s].result).chunk) >> ELSE <<>>)
  \o gen[s].chunks

\* C25: once an abort frame has been accepted, the chunks chatStream has
\* yielded followed by those it still holds are, in arrival order, the
\* chunks the transport emitted; a run that has ended has yielded every
\* chunk emitted before its first terminal event; the chunk frames sent
\* are the yielded chunks in the same order, all of them once
\* readStreamResponses has ended on an open socket; and a chunk event
\* raises nothing.
C25_AbortLosesNothing ==
  [][ abortController' = "aborted" =>
        /\ \A s \in 1..nStreams' :
             /\ yielded'[s] \o Held(s)' = ChunksOf(Emitted(s)')
             /\ Finished(s)' => IsPrefix(ChunksOf(BeforeTerminal(s)'), yielded'[s])
             /\ IsPrefix(ChunkFramesOf(s)',
                         [ i \in 1..Len(yielded'[s]) |-> WSChunkOf(yielded'[s][i]) ])
             /\ (reader'[s].pc = "closed" /\ readyState' = WS_OPEN) =>
                   Len(ChunkFramesOf(s)') = Len(yielded'[s])
        /\ \A s \in Streams : ChunkArrives(s) => uncaught' = uncaught ]_vars

\* the session was aborted and two chunks were forwarded on the open socket
C25_Witness ==
  /\ abortController = "aborted"
  /\ inbound = << RawStart, RawAbort >>
  /\ readyState = WS_OPEN
  /\ Len(ChunkFramesOf(1)) = 2
  /\ ChunkFramesOf(1)[2].index = 1

\* ---- what is written to the transport
\* C26: what a chatStream run has written to its duplex stream is nothing
\* before the stream is opened and the one start envelope of its input from
\* then on; and a generator is created only by the step that handles an
\* inbound start frame, never by a step of a stream or of
\* readStreamResponses, whatever error was reported.
C26_OneStartNoRetry ==
  [][ /\ \A s \in Streams :
           wire'[s].written =
             IF wire'[s].state = "none" THEN <<>>
             ELSE << StartEnvelope(Val(gen'[s].input)) >>
      /\ nStreams' # nStreams => InType("start")
      /\ \A s \in Streams :
           (gen[s].pc # "none" /\ gen'[s].pc = "getClient") => gen[s].pc = "getClient"
    ]_vars

\* the transport reported an error marked retryable; it was sent on as the
\* session's stream_error frame, and there is still the one stream with its
\* one start envelope
C26_Witness ==
  /\ nStreams = 1
  /\ \E i \in 1..Len(Emitted(1)) :
       Emitted(1)[i].kind = "error" /\ Emitted(1)[i].error.retryable
  /\ \E j \in 1..Len(sent) : IsError(sent[j], "stream_error")
  /\ StartsWritten(1) = 1
  /\ Len(wire[1].written) = 1
  /\ \A s \in Streams : s # 1 => wire[s].state = "none"

\* ---- termination of a chatStream run
\* C27: no lost wakeup.  Once a listener has processed a terminal event
\* (the done flag is set), a run suspended at its await has its promise
\* settled, and, the consumer pulling on, the run ends: it returns or
\* throws.
C27_NoLostWakeup ==
  /\ [](\A s \in Streams :
          (gen[s].done /\ gen[s].pc = "wait") => ~IsNull(gen[s].result))
  /\ \A s \in Streams : gen[s].done ~> Finished(s)

\* the run was suspended at its await with nothing buffered when the
\* terminal event came (every chunk before it had been handed over), and it
\* has ended
C27_Witness ==
  /\ Finished(1)
  /\ Len(Emitted(1)) >= 2
  /\ Emitted(1)[Len(Emitted(1))].kind \in { "completion", "error", "streamError", "end" }
  /\ \A i \in 1..(Len(Emitted(1)) - 1) : Emitted(1)[i].kind = "chunk"
  /\ Len(yielded[1]) = Len(Emitted(1)) - 1
  /\ reader[1].pc = "closed"

\* ---- chunks buffered when an error arrives
ErrorFirst(s) ==
  /\ Len(BeforeTerminal(s)) < Len(Emitted(s))
  /\ Emitted(s)[Len(BeforeTerminal(s)) + 1].kind \in { "error", "streamError" }

\* C28: when the first terminal event of a run is an error frame or a
\* stream 'error', the chunks received before it are not lost or reordered:
\* while the run has not ended every one of them is either handed to the
\* consumer or still held, in arrival order, and when the run has ended
\* they have all been yielded, in arrival order, before the error was raised.
C28_BufferedBeforeError ==
  \A s \in Streams :
    ErrorFirst(s) =>
      /\ IsPrefix(yielded[s], ChunksOf(Emitted(s)))
      /\ ~Finished(s) =>
            IsPrefix(ChunksOf(BeforeTerminal(s)), yielded[s] \o Held(s))
      /\ Finished(s) =>
            /\ IsPrefix(ChunksOf(BeforeTerminal(s)), yielded[s])
            /\ Val(gen[s].outcome).kind = "threw"

\* three chunks, then an error; the run has yielded the three and thrown
C28_Witness ==
  /\ ErrorFirst(1)
  /\ Len(ChunksOf(BeforeTerminal(1))) = 3
  /\ Len(Emitted(1)) = 4
  /\ Finished(1)
  /\ Val(gen[1].outcome).kind = "threw"
  /\ yielded[1] = ChunksOf(BeforeTerminal(1))

\* ---- frames that parse
\* C29: handling an inbound text frame whose JSON parses raises nothing out
\* of the socket's message listener, and a frame that is not one of the
\* four known types changes nothing of the session but what it has sent.
C29_ParsedNeverRaises ==
  [][ (Handled /\ In.ok) =>
        /\ uncaught' = uncaught
        /\ (~In.isObj \/ In.type \notin { "start", "message", "abort", "tool_result" }) =>
              /\ UNCHANGED << started, abortController, nStreams, gen, wire,
                              reader, yielded >>
              /\ Len(sent') <= Len(sent) + 1
    ]_vars

\* ---- a start that fails while being set up
\* an earlier start frame of this connection failed while being set up
FailedBefore ==
  \E i \in 1..Len(inbound) : inbound[i] = RawStartNoData

\* C30: a start frame without a data object, handled while no session is
\* started, is answered with exactly one start_failed error frame marked
\* retryable; no started frame is sent, no stream is created and the
\* started flag stays clear.  A valid start handled after such a failure,
\* no start having been accepted in between, is accepted: it sets the flag, creates a
\* stream and is answered with a started frame.
C30_StartFailedLeavesIdle ==
  [][ /\ (InType("start") /\ IsNull(In.data) /\ ~started) =>
           /\ RepliesError("start_failed")
           /\ Last(sent').data.retryable = TRUE
           /\ ~started'
           /\ nStreams' = nStreams
           /\ gen' = gen
           /\ wire' = wire
           /\ reader' = reader
           /\ uncaught' = uncaught
      /\ (InType("start") /\ ~IsNull(In.data) /\ FailedBefore /\ ~started) =>
           /\ started'
           /\ nStreams' = nStreams + 1
           /\ Len(sent') = Len(sent) + 1
           /\ Last(sent').type = "started"
           /\ reader'[nStreams'].pc = "reading"
    ]_vars

\* a start without data failed, the start after it was accepted and its
\* stream has forwarded a chunk
C30_Witness ==
  /\ inbound = << RawStartNoData, RawStart >>
  /\ Len(sent) >= 3
  /\ IsError(sent[1], "start_failed")
  /\ sent[1].data.retryable
  /\ sent[2].type = "started"
  /\ sent[3].type = "chunk"
  /\ \A i \in 2..Len(sent) : sent[i].type # "error"
  /\ nStreams = 1

====
